---- MODULE Spec2Model ----
(***************************************************************************)
(* country_capitals/main.py: resolving a country identifier (ISO code,     *)
(* name, pycountry record, fuzzy text) to the capital of that country.     *)
(*                                                                         *)
(* A Python str is a sequence of one-character strings.  A query value is   *)
(* either a str or a pycountry Country object; an exception is the name of *)
(* its Python class.  Every call records the functions of the chain it ran *)
(* and the lookups it made in pycountry.countries.                         *)
(***************************************************************************)
EXTENDS Integers, Sequences, FiniteSets, TLC

\* Largest number of entries the lru_cache of get_capital holds in the model
\* (maxsize=None in the code: the cache itself never evicts).
MaxCache == 2

-----------------------------------------------------------------------------
(* pycountry.countries: the records the lookups are made in.  A record     *)
(* carries common_name / official_name only when ISO 3166 gives one.       *)

Countries ==
    << [alpha_2 |-> <<"A","F">>, alpha_3 |-> <<"A","F","G">>,
        numeric |-> <<"0","0","4">>,
        name |-> <<"A","f","g","h","a","n","i","s","t","a","n">>],
       [alpha_2 |-> <<"A","Q">>, alpha_3 |-> <<"A","T","A">>,
        numeric |-> <<"0","1","0">>,
        name |-> <<"A","n","t","a","r","c","t","i","c","a">>],
       [alpha_2 |-> <<"N","G">>, alpha_3 |-> <<"N","G","A">>,
        numeric |-> <<"5","6","6">>,
        name |-> <<"N","i","g","e","r","i","a">>],
       [alpha_2 |-> <<"N","E">>, alpha_3 |-> <<"N","E","R">>,
        numeric |-> <<"5","6","2">>,
        name |-> <<"N","i","g","e","r">>,
        official_name |-> <<"R","e","p","u","b","l","i","c"," ","o","f"," ",
                            "t","h","e"," ","N","i","g","e","r">>],
       [alpha_2 |-> <<"V","N">>, alpha_3 |-> <<"V","N","M">>,
        numeric |-> <<"7","0","4">>,
        name |-> <<"V","i","e","t"," ","N","a","m">>,
        common_name |-> <<"V","i","e","t","n","a","m">>] >>

CountryIds == 1..Len(Countries)

\* The object None.
None == 0

\* capitals.json with every entry it may hold: alpha-3 code -> capital.
AllCapitals ==
    ( <<"A","F","G">> :> "Kabul"  @@ <<"N","G","A">> :> "Abuja" @@
      <<"N","E","R">> :> "Niamey" @@ <<"V","N","M">> :> "Hanoi" )

\* Entries every table of the model holds; the others may be missing.
CoreCapitals == { <<"N","G","A">>, <<"N","E","R">>, <<"V","N","M">> }

-----------------------------------------------------------------------------
(* Values *)

Str(s)     == [type |-> "str", s |-> s, c |-> None]
Country(i) == [type |-> "Country", s |-> <<>>, c |-> i]

Return(v, log) == [kind |-> "return", val |-> v, log |-> log]
Raise(e, log)  == [kind |-> "raise",  val |-> e, log |-> log]

\* class CountryNotFoundError(ValueError), class CapitalNotFoundError(ValueError):
\* what `except ValueError` catches.  AttributeError is not among them.
ValueErrors == {"ValueError", "CountryNotFoundError", "CapitalNotFoundError"}

Digits == {"0","1","2","3","4","5","6","7","8","9"}

\* str.isdigit(): every character is a digit and there is at least one.
isdigit(s) == Len(s) > 0 /\ \A i \in 1..Len(s) : s[i] \in Digits

\* str.zfill(3) of a string of digits.
RECURSIVE zfill(_, _)
zfill(s, width) == IF Len(s) >= width THEN s ELSE zfill(<<"0">> \o s, width)

\* One lookup made in pycountry.countries.
Lookup(field, value) == [field |-> field, value |-> value]

\* pycountry.countries.get(<field>=value): the record or None.
countries_get(field, value) ==
    LET hits == { i \in CountryIds :
                    field \in DOMAIN Countries[i] /\ Countries[i][field] = value }
    IN  IF hits = {} THEN None ELSE CHOOSE i \in hits : TRUE

\* Whether text occurs in name.
IsSubstring(text, name) ==
    \E k \in 0..(Len(name) - Len(text)) :
        \A j \in 1..Len(text) : name[k + j] = text[j]

\* The order pycountry.countries.search_fuzzy ranks its matches in.
FuzzyRank == <<1, 2, 3, 4, 5>>

\* pycountry.countries.search_fuzzy(text): the matching records, best first.
search_fuzzy(text) ==
    SelectSeq(FuzzyRank, LAMBDA i : IsSubstring(text, Countries[i].name))


-----------------------------------------------------------------------------
(* State *)

VARIABLES
    capitals,   \* capitals = load_capitals(): alpha-3 code -> capital
    cache,      \* the lru_cache of get_capital: argument list -> returned capital
    last        \* the call made last and how it ended

vars == <<capitals, cache, last>>

-----------------------------------------------------------------------------
(* The strategies.  Each yields Return(capital, log) or Raise(class, log), *)
(* log being the lookups it made in pycountry.countries, in order.         *)

\* capitals[country.alpha_3] once a record is at hand; `missing` is the class
\* raised when the table has no entry for it.
CapitalOf(i, missing, log) ==
    IF Countries[i].alpha_3 \notin DOMAIN capitals
    THEN Raise(missing, log)
    ELSE Return(capitals[Countries[i].alpha_3], log)

get_capital_by_pycountry_country(country) ==
    IF country.type # "Country"
    THEN Raise("AttributeError", <<>>)    \* a str has no attribute alpha_3
    ELSE CapitalOf(country.c, "ValueError", <<>>)

\* get_capital_by_alpha3 looking the code up among the alpha-2 codes.
get_capital_by_alpha3_in_alpha2(alpha3) ==
    IF Len(alpha3) # 3
    THEN Raise("ValueError", <<>>)
    ELSE LET log     == <<Lookup("alpha_2", alpha3)>>
             country == countries_get("alpha_2", alpha3)
         IN  IF country = None
             THEN Raise("CountryNotFoundError", log)
             ELSE CapitalOf(country, "CapitalNotFoundError", log)

get_capital_by_alpha3(alpha3) ==
    IF Len(alpha3) # 3
    THEN Raise("ValueError", <<>>)
    ELSE LET log     == <<Lookup("alpha_3", alpha3)>>
             country == countries_get("alpha_3", alpha3)
         IN  IF country = None
             THEN Raise("CountryNotFoundError", log)
             ELSE CapitalOf(country, "CapitalNotFoundError", log)

get_capital_by_alpha2(alpha2) ==
    IF Len(alpha2) # 2
    THEN Raise("ValueError", <<>>)
    ELSE LET log     == <<Lookup("alpha_2", alpha2)>>
             country == countries_get("alpha_2", alpha2)
         IN  IF country = None
             THEN Raise("CountryNotFoundError", log)
             ELSE CapitalOf(country, "CapitalNotFoundError", log)

\* get_capital_by_numeric without numeric.zfill(3).
get_capital_by_numeric_unpadded(numeric) ==
    IF ~isdigit(numeric)
    THEN Raise("ValueError", <<>>)
    ELSE LET log     == <<Lookup("numeric", numeric)>>
             country == countries_get("numeric", numeric)
         IN  IF country = None
             THEN Raise("CountryNotFoundError", log)
             ELSE CapitalOf(country, "CapitalNotFoundError", log)

get_capital_by_numeric(numeric) ==
    IF ~isdigit(numeric)
    THEN Raise("ValueError", <<>>)
    ELSE LET padded  == zfill(numeric, 3)
             log     == <<Lookup("numeric", padded)>>
             country == countries_get("numeric", padded)
         IN  IF country = None
             THEN Raise("CountryNotFoundError", log)
             ELSE CapitalOf(country, "CapitalNotFoundError", log)

\* get_capital_by_iso_code testing the length before isdigit().
get_capital_by_iso_code_length_first(iso_code) ==
    IF iso_code.type # "str"
    THEN Raise("AttributeError", <<>>)
    ELSE IF Len(iso_code.s) = 2  THEN get_capital_by_alpha2(iso_code.s)
    ELSE IF Len(iso_code.s) = 3  THEN get_capital_by_alpha3(iso_code.s)
    ELSE IF isdigit(iso_code.s)  THEN get_capital_by_numeric(iso_code.s)
    ELSE Raise("ValueError", <<>>)

get_capital_by_iso_code(iso_code) ==
    IF iso_code.type # "str"
    THEN Raise("AttributeError", <<>>)    \* a Country has no attribute isdigit
    ELSE IF isdigit(iso_code.s)  THEN get_capital_by_numeric(iso_code.s)
    ELSE IF Len(iso_code.s) = 2  THEN get_capital_by_alpha2(iso_code.s)
    ELSE IF Len(iso_code.s) = 3  THEN get_capital_by_alpha3(iso_code.s)
    ELSE Raise("ValueError", <<>>)

get_capital_by_name(country_name) ==
    LET country_from_name          == countries_get("name", country_name)
        country_from_common_name   == countries_get("common_name", country_name)
        country_from_official_name == countries_get("official_name", country_name)
        log == << Lookup("name", country_name),
                  Lookup("common_name", country_name),
                  Lookup("official_name", country_name) >>
        country == IF country_from_name # None THEN country_from_name
                   ELSE IF country_from_common_name # None
                        THEN country_from_common_name
                        ELSE country_from_official_name
    IN  IF country = None
        THEN Raise("CountryNotFoundError", log)
        ELSE CapitalOf(country, "CapitalNotFoundError", log)

get_capital_by_fuzzy_name(country_name) ==
    LET country == search_fuzzy(country_name)
        log     == <<Lookup("search_fuzzy", country_name)>>
    IN  IF Len(country) = 0
        THEN Raise("CountryNotFoundError", log)
        ELSE CapitalOf(country[1], "CapitalNotFoundError", log)

\* func(query) as get_capital calls it.  pycountry's get and search_fuzzy
\* refuse a value that is not a str with an error that is no ValueError.
Call(func, query) ==
    CASE func = "get_capital_by_iso_code" -> get_capital_by_iso_code(query)
      [] func = "get_capital_by_pycountry_country" ->
             get_capital_by_pycountry_country(query)
      [] func = "get_capital_by_name" ->
             IF query.type = "str" THEN get_capital_by_name(query.s)
                                   ELSE Raise("LookupError", <<>>)
      [] func = "get_capital_by_fuzzy_name" ->
             IF query.type = "str" THEN get_capital_by_fuzzy_name(query.s)
                                   ELSE Raise("LookupError", <<>>)

-----------------------------------------------------------------------------
(* get_capital *)

\* FUNCTIONS with the fuzzy strategy put first.
FUNCTIONS_fuzzy_first(fuzzy) ==
    (IF fuzzy THEN <<"get_capital_by_fuzzy_name">> ELSE <<>>)
    \o << "get_capital_by_iso_code", "get_capital_by_name",
          "get_capital_by_pycountry_country" >>

FUNCTIONS(fuzzy) ==
    << "get_capital_by_iso_code", "get_capital_by_name",
       "get_capital_by_pycountry_country" >>
    \o (IF fuzzy THEN <<"get_capital_by_fuzzy_name">> ELSE <<>>)

\* How a call ended: what it returned or raised, the functions of FUNCTIONS
\* it ran and the lookups it made.
Ended(r, ran, log) ==
    [kind |-> r.kind, val |-> r.val, ran |-> ran, log |-> log]

\* for func in FUNCTIONS: try: return func(query) / except ValueError: pass,
\* then raise ValueError.
RECURSIVE TryFrom(_, _, _, _, _)
TryFrom(funcs, i, query, ran, log) ==
    IF i > Len(funcs)
    THEN Ended(Raise("ValueError", <<>>), ran, log)
    ELSE LET r == Call(funcs[i], query)
         IN  IF r.kind = "raise" /\ r.val \in ValueErrors
             THEN TryFrom(funcs, i + 1, query, Append(ran, funcs[i]), log \o r.log)
             ELSE Ended(r, Append(ran, funcs[i]), log \o r.log)

\* The body of get_capital(query, fuzzy).
get_capital_body(query, fuzzy) == TryFrom(FUNCTIONS(fuzzy), 1, query, <<>>, <<>>)

\* The argument list of a call: get_capital(query) or get_capital(query, fuzzy).
\* lru_cache keys its entries by the argument list as passed.
ArgQuery(args) == args[1]
ArgFuzzy(args) == IF Len(args) >= 2 THEN args[2] ELSE FALSE

-----------------------------------------------------------------------------
(* Inputs *)

\* The strings passed to the strategies.
Strings ==
    { <<>>,
      <<"A">>,
      <<"4">>,
      <<"0","4">>,
      <<"0","0","4">>,
      <<"1","0">>,
      <<"0","1","0">>,
      <<"5","6","6">>,
      <<"9","9","9">>,
      <<"0","0","0","4">>,
      <<"A","F">>,
      <<"A","Q">>,
      <<"Z","Z">>,
      <<"A","F","G">>,
      <<"A","T","A">>,
      <<"N","E","R">>,
      <<"Z","Z","Z">>,
      <<"A","B","C","D">>,
      <<"N","i","g","e","r">>,
      <<"N","i","g","e">>,
      <<"V","i","e","t","n","a","m">>,
      <<"V","i","e","t"," ","N","a","m">>,
      <<"R","e","p","u","b","l","i","c"," ","o","f"," ","t","h","e"," ","N","i","g","e","r">>,
      <<"A","t","l","a","n","t","i","s">> }

\* The values passed to get_capital.
Queries ==
    { Str(s) : s \in
    { <<"4">>,
      <<"0","0","4">>,
      <<"A","F","G">>,
      <<"1","0">>,
      <<"0","1","0">>,
      <<"N","i","g","e","r">>,
      <<"N","i","g","e">>,
      <<"Z","Z">>,
      <<"A","B","C","D">> } }
    \cup { Country(1), Country(2) }

CallArgs == { <<q>> : q \in Queries } \cup { <<q, b>> : q \in Queries, b \in BOOLEAN }

NoCall ==
    [func |-> "none", args |-> <<>>, kind |-> "none", val |-> "",
     ran |-> <<>>, log |-> <<>>, hit |-> FALSE]

Done(func, args, e, hit) ==
    [func |-> func, args |-> args, kind |-> e.kind, val |-> e.val,
     ran |-> e.ran, log |-> e.log, hit |-> hit]

-----------------------------------------------------------------------------
(* Behaviour *)

Init ==
    /\ \E keys \in SUBSET DOMAIN AllCapitals :
          /\ CoreCapitals \subseteq keys
          /\ capitals = [k \in keys |-> AllCapitals[k]]
    /\ cache = << >>
    /\ last = NoCall

\* get_capital without its lru_cache.
GetCapital_uncached(args) ==
    /\ last' = Done("get_capital", args,
                    get_capital_body(ArgQuery(args), ArgFuzzy(args)), FALSE)
    /\ UNCHANGED <<capitals, cache>>

\* get_capital(*args) through lru_cache: an entry of the cache is returned
\* as it is; otherwise the body runs and what it returns is stored.
GetCapital(args) ==
    IF args \in DOMAIN cache
    THEN /\ last' = Done("get_capital", args,
                         Ended(Return(cache[args], <<>>), <<>>, <<>>), TRUE)
         /\ UNCHANGED <<capitals, cache>>
    ELSE LET e == get_capital_body(ArgQuery(args), ArgFuzzy(args))
         IN  /\ e.kind = "return" => Cardinality(DOMAIN cache) < MaxCache
             /\ cache' = IF e.kind = "return" THEN cache @@ (args :> e.val)
                                              ELSE cache
             /\ last' = Done("get_capital", args, e, FALSE)
             /\ UNCHANGED capitals

\* A strategy called on its own.
Direct(func, arg, r) ==
    /\ last' = Done(func, <<arg>>, Ended(r, <<>>, r.log), FALSE)
    /\ UNCHANGED <<capitals, cache>>

ByIsoCode == \E q \in Queries \cup {Str(s) : s \in Strings} :
                 Direct("get_capital_by_iso_code", q, get_capital_by_iso_code(q))
ByAlpha3  == \E s \in Strings :
                 Direct("get_capital_by_alpha3", Str(s), get_capital_by_alpha3(s))
ByAlpha2  == \E s \in Strings :
                 Direct("get_capital_by_alpha2", Str(s), get_capital_by_alpha2(s))
ByNumeric == \E s \in Strings :
                 Direct("get_capital_by_numeric", Str(s), get_capital_by_numeric(s))
ByName    == \E s \in Strings :
                 Direct("get_capital_by_name", Str(s), get_capital_by_name(s))
ByCountry == \E q \in Queries \cup {Country(i) : i \in CountryIds} :
                 Direct("get_capital_by_pycountry_country", q,
                        get_capital_by_pycountry_country(q))
ByFuzzyName == \E s \in Strings :
                 Direct("get_capital_by_fuzzy_name", Str(s),
                        get_capital_by_fuzzy_name(s))

Resolve == \E args \in CallArgs : GetCapital(args)

\* The calls of get_capital, and of the numeric strategy beside them.
Next ==
    \/ Resolve
    \/ ByNumeric

Spec == Init /\ [][Next]_vars

\* The strategies called on their own, get_capital left aside.
NextStrategies ==
    \/ ByIsoCode
    \/ ByAlpha3
    \/ ByAlpha2
    \/ ByNumeric
    \/ ByName
    \/ ByCountry
    \/ ByFuzzyName

SpecStrategies == Init /\ [][NextStrategies]_vars

-----------------------------------------------------------------------------
(* Vocabulary of the properties *)

Resolved(l)    == l.func = "get_capital"
Returned(l, c) == l.kind = "return" /\ l.val = c
Raised(l, e)   == l.kind = "raise" /\ l.val = e

\* Two calls ended alike: the same capital returned, or both failed.
SameResult(a, b) ==
    \/ a.kind = "return" /\ b.kind = "return" /\ a.val = b.val
    \/ a.kind = "raise" /\ b.kind = "raise"

\* The strategies of the chain before the fuzzy one all fail on query.
OnlyFuzzyCanMatch(query) ==
    \A i \in 1..Len(FUNCTIONS(FALSE)) : Call(FUNCTIONS(FALSE)[i], query).kind = "raise"

\* A digit string of one or two characters, left-padded with zeros to three.
Padded3(d) == IF Len(d) = 1 THEN <<"0","0">> \o d ELSE <<"0">> \o d

ShortDigits(q) == q.type = "str" /\ isdigit(q.s) /\ Len(q.s) \in {1, 2}

-----------------------------------------------------------------------------
(* C1 (as stated): get_capital runs the strategies in the order by-ISO-code, *)
(* by-name, by-country-record, by-fuzzy-name (the last only with the flag), *)
(* passes every failure of a strategy on to the next one, returns the       *)
(* capital of the first strategy that succeeds and runs nothing after it.  *)
C1_FixedOrderFallThrough ==
    (Resolved(last) /\ ~last.hit) =>
        LET funcs == FUNCTIONS(ArgFuzzy(last.args))
            query == ArgQuery(last.args)
            n     == Len(last.ran)
        IN  /\ n \in 1..Len(funcs)
            /\ last.ran = SubSeq(funcs, 1, n)
            /\ \A i \in 1..(n - 1) : Call(funcs[i], query).kind = "raise"
            /\ IF Call(funcs[n], query).kind = "return"
               THEN Returned(last, Call(funcs[n], query).val)
               ELSE n = Len(funcs) /\ last.kind = "raise"

(* C2 (as stated): a call of get_capital returns a capital or fails with    *)
(* the generic ValueError of get_capital; no other kind of error escapes.  *)
C2_OnlyNotFoundEscapes ==
    Resolved(last) => last.kind = "return" \/ Raised(last, "ValueError")

(* C3 (as stated): a call of get_capital whose (query, fuzzy) pair is that  *)
(* of the call before it ends as that call did and makes no lookup in the  *)
(* country directory.                                                      *)
C3_MemoizedByPair ==
    [][ ( /\ Resolved(last) /\ Resolved(last')
          /\ ArgQuery(last'.args) = ArgQuery(last.args)
          /\ ArgFuzzy(last'.args) = ArgFuzzy(last.args) )
        => ( /\ last'.kind = last.kind
             /\ last'.val = last.val
             /\ last'.log = <<>> ) ]_vars

(* C3 (amended): get_capital is memoized by its argument list, for the     *)
(* calls that return.  A call whose argument list has an entry in the      *)
(* cache returns that entry, runs no strategy and makes no lookup; a call  *)
(* that returns stores its capital under its argument list, an entry is    *)
(* never dropped or changed, and a call that fails stores nothing.         *)
C3_MemoizedReturns ==
    [][ Resolved(last') =>
          /\ last'.args \in DOMAIN cache =>
                /\ last'.hit
                /\ Returned(last', cache[last'.args])
                /\ last'.ran = <<>> /\ last'.log = <<>>
          /\ ( Resolved(last) /\ last.kind = "return" /\ last'.args = last.args )
                => ( Returned(last', last.val) /\ last'.log = <<>> )
          /\ last'.kind = "return" =>
                last'.args \in DOMAIN cache' /\ cache'[last'.args] = last'.val
          /\ last'.kind = "raise" =>
                ~last'.hit /\ last'.args \notin DOMAIN cache'
          /\ \A k \in DOMAIN cache : k \in DOMAIN cache' /\ cache'[k] = cache[k]
      ]_vars

\* A call of get_capital answered from the cache.
C3_Witness == Resolved(last) /\ last.hit /\ last.log = <<>>

(* C4 (as stated): get_capital of a Country object whose alpha-3 code has   *)
(* an entry in the table returns that entry, whatever the fuzzy flag.      *)
C4_RecordUsedDirectly ==
    ( /\ Resolved(last)
      /\ ArgQuery(last.args).type = "Country"
      /\ Countries[ArgQuery(last.args).c].alpha_3 \in DOMAIN capitals )
    => Returned(last, capitals[Countries[ArgQuery(last.args).c].alpha_3])

(* C5 (as stated): without the fuzzy flag get_capital never calls           *)
(* search_fuzzy, so a string only the fuzzy search matches fails with the  *)
(* generic ValueError; with the flag it returns the capital of the first   *)
(* record the fuzzy search ranks.                                          *)
C5_FuzzyOnlyWithFlag ==
    Resolved(last) =>
        LET query == ArgQuery(last.args)
            fuzzy == ArgFuzzy(last.args)
        IN  /\ ~fuzzy =>
                  \A i \in 1..Len(last.log) : last.log[i].field # "search_fuzzy"
            /\ ( /\ query.type = "str"
                 /\ OnlyFuzzyCanMatch(query)
                 /\ search_fuzzy(query.s) # <<>>
                 /\ Countries[search_fuzzy(query.s)[1]].alpha_3 \in DOMAIN capitals )
               => IF fuzzy
                  THEN Returned(last,
                         capitals[Countries[search_fuzzy(query.s)[1]].alpha_3])
                  ELSE Raised(last, "ValueError")

(* C6: for every record of the directory, get_capital of its numeric code *)
(* and get_capital of its alpha-3 code, made one after the other in either *)
(* order with the same fuzzy flag, return the same capital or both fail;   *)
(* and the cache never holds different capitals for the two.               *)
NumericAndAlpha3(a, b) ==
    \E i \in CountryIds :
        \/ a = Str(Countries[i].numeric) /\ b = Str(Countries[i].alpha_3)
        \/ a = Str(Countries[i].alpha_3) /\ b = Str(Countries[i].numeric)

C6_NumericEqualsAlpha3 ==
    [][ /\ ( /\ Resolved(last) /\ Resolved(last')
             /\ ArgFuzzy(last'.args) = ArgFuzzy(last.args)
             /\ NumericAndAlpha3(ArgQuery(last.args), ArgQuery(last'.args)) )
           => SameResult(last, last')
        /\ \A k1, k2 \in DOMAIN cache' :
              NumericAndAlpha3(ArgQuery(k1), ArgQuery(k2)) => cache'[k1] = cache'[k2]
      ]_vars

\* get_capital("AFG") has just returned the capital that get_capital("004")
\* returned before it.
C6_Witness ==
    /\ Resolved(last) /\ ~last.hit /\ last.kind = "return"
    /\ ArgQuery(last.args) = Str(<<"A","F","G">>)
    /\ \E k \in DOMAIN cache :
          /\ ArgQuery(k) = Str(<<"0","0","4">>)
          /\ ArgFuzzy(k) = ArgFuzzy(last.args)
          /\ cache[k] = last.val

(* C7 (as stated): each of the four strategies, called on its own with a    *)
(* value of its type, raises CountryNotFoundError when the directory gives *)
(* no record, CapitalNotFoundError when the record it gives has no entry   *)
(* in the table, and returns the entry otherwise.                          *)
FourStrategies ==
    { "get_capital_by_iso_code", "get_capital_by_name",
      "get_capital_by_pycountry_country", "get_capital_by_fuzzy_name" }

\* The record the directory gave the call: the Country passed, the first hit
\* of search_fuzzy, or the first lookup of the call that found one.
RecordGiven(l) ==
    IF l.func = "get_capital_by_pycountry_country" THEN l.args[1].c
    ELSE IF l.func = "get_capital_by_fuzzy_name"
    THEN IF search_fuzzy(l.args[1].s) = <<>> THEN None
                                              ELSE search_fuzzy(l.args[1].s)[1]
    ELSE LET found == { i \in 1..Len(l.log) :
                          countries_get(l.log[i].field, l.log[i].value) # None }
         IN  IF found = {} THEN None
             ELSE LET first == CHOOSE i \in found : \A j \in found : i <= j
                  IN  countries_get(l.log[first].field, l.log[first].value)

C7_SpecificErrorKinds ==
    ( /\ last.func \in FourStrategies
      /\ last.args[1].type =
           (IF last.func = "get_capital_by_pycountry_country" THEN "Country" ELSE "str")
      /\ last.func = "get_capital_by_iso_code" => last.log # <<>> )
    => IF RecordGiven(last) = None
       THEN Raised(last, "CountryNotFoundError")
       ELSE IF Countries[RecordGiven(last)].alpha_3 \notin DOMAIN capitals
       THEN Raised(last, "CapitalNotFoundError")
       ELSE Returned(last, capitals[Countries[RecordGiven(last)].alpha_3])

(* C8: get_capital_by_iso_code of a string makes exactly one lookup, by the *)
(* first rule that applies: all digits - the numeric code, whatever the     *)
(* length; else length 2 - alpha-2; else length 3 - alpha-3; any other      *)
(* string raises the plain ValueError (not CountryNotFoundError) and makes  *)
(* no lookup.                                                               *)
C8_IsoCodeClassification ==
    ( last.func = "get_capital_by_iso_code" /\ last.args[1].type = "str" ) =>
        LET s == last.args[1].s
            AllDigits == s # <<>> /\ \A i \in 1..Len(s) : s[i] \in Digits
        IN  IF AllDigits
            THEN Len(last.log) = 1 /\ last.log[1].field = "numeric"
            ELSE IF Len(s) = 2
            THEN last.log = <<Lookup("alpha_2", s)>>
            ELSE IF Len(s) = 3
            THEN last.log = <<Lookup("alpha_3", s)>>
            ELSE /\ Raised(last, "ValueError")
                 /\ last.val # "CountryNotFoundError"
                 /\ last.log = <<>>

\* get_capital_by_iso_code("10"): two digits, looked up as a numeric code.
C8_Witness ==
    /\ last.func = "get_capital_by_iso_code"
    /\ last.args[1] = Str(<<"1","0">>)
    /\ last.log = <<Lookup("numeric", <<"0","1","0">>)>>

(* C9: get_capital_by_numeric, and get_capital, end alike on a digit string *)
(* of one or two characters and on that string left-padded with zeros to   *)
(* three (calls made one after the other, in either order, with the same    *)
(* flag), and every lookup by numeric code is made with at least three      *)
(* digits.                                                                  *)
PaddedPair(a, b) ==
    \/ ShortDigits(a) /\ b = Str(Padded3(a.s))
    \/ ShortDigits(b) /\ a = Str(Padded3(b.s))

C9_NumericZeroPadded ==
    [][ /\ ( /\ last.func \in {"get_capital", "get_capital_by_numeric"}
             /\ last'.func = last.func
             /\ ArgFuzzy(last'.args) = ArgFuzzy(last.args)
             /\ PaddedPair(ArgQuery(last.args), ArgQuery(last'.args)) )
           => ( last'.kind = last.kind /\ last'.val = last.val )
        /\ \A i \in 1..Len(last'.log) :
              last'.log[i].field = "numeric" =>
                  Len(last'.log[i].value) >= 3 /\ isdigit(last'.log[i].value)
      ]_vars

\* get_capital("4") has just looked up "004" and returned the capital that
\* get_capital("004") returned before it.
C9_Witness ==
    /\ Resolved(last) /\ ~last.hit /\ last.kind = "return"
    /\ ArgQuery(last.args) = Str(<<"4">>)
    /\ last.log = <<Lookup("numeric", <<"0","0","4">>)>>
    /\ \E k \in DOMAIN cache :
          ArgQuery(k) = Str(<<"0","0","4">>) /\ cache[k] = last.val

(* C10: of two calls of get_capital on the same query made one after the    *)
(* other, one without and one with the fuzzy flag, in either order: when    *)
(* the one without the flag returns a capital, the one with it returns the *)
(* same capital; and the cache never holds different capitals for a query. *)
C10_FuzzyKeepsResult ==
    [][ /\ ( /\ Resolved(last) /\ Resolved(last')
             /\ ArgQuery(last'.args) = ArgQuery(last.args)
             /\ ArgFuzzy(last'.args) # ArgFuzzy(last.args) )
           => LET plain == IF ArgFuzzy(last.args) THEN last' ELSE last
                  fuzzy == IF ArgFuzzy(last.args) THEN last ELSE last'
              IN  plain.kind = "return" => Returned(fuzzy, plain.val)
        /\ \A k1, k2 \in DOMAIN cache' :
              ArgQuery(k1) = ArgQuery(k2) => cache'[k1] = cache'[k2]
      ]_vars

\* get_capital("Niger", True) has just returned the capital get_capital("Niger")
\* returned, though search_fuzzy ranks another country first for "Niger".
C10_Witness ==
    /\ Resolved(last) /\ ~last.hit /\ last.kind = "return"
    /\ ArgFuzzy(last.args)
    /\ ArgQuery(last.args).type = "str"
    /\ search_fuzzy(ArgQuery(last.args).s) # <<>>
    /\ capitals[Countries[search_fuzzy(ArgQuery(last.args).s)[1]].alpha_3] # last.val
    /\ \E k \in DOMAIN cache :
          /\ ArgQuery(k) = ArgQuery(last.args)
          /\ ~ArgFuzzy(k)
          /\ cache[k] = last.val

====
